---- MODULE Spec2Model ----
(***************************************************************************)
(* Model of scripts/QCD-RE.py: the forward-scattering Hamiltonian          *)
(* construction (generate_heisenberg_graph, nx_heisenberg_terms,           *)
(* generate_forward_scattering) and the driver main().                     *)
(*                                                                         *)
(* Python values are modelled as follows.                                  *)
(*   None / an int        the empty tuple <<>> / the one-tuple <<v>>       *)
(*   a str of Paulis      a sequence of the one-character strings          *)
(*   a float              the exact triple [num, den, root] standing for   *)
(*                        num / (sqrt(root) * den)                         *)
(*   an nx.Graph          [nodes, attr, adj, data]: the nodes in insertion *)
(*                        order, the node attribute, the adjacency lists   *)
(*                        in insertion order and the edge attribute        *)
(***************************************************************************)
EXTENDS Integers, Sequences, FiniteSets, TLC

\* ------------------------------------------------------------------ bounds
MaxParticles == 4
MaxSteps == 2
MaxN == 5
MaxEdges == 2

\* ------------------------------------------------------- Python primitives
None == <<>>

Some(v) == <<v>>

Val(x) == x[1]

\* truth value of an Optional[int] in `if x`
Truthy(x) == x # None /\ Val(x) # 0

\* str(x) as an f-string formats it
Fmt(x) == IF x = None THEN "None" ELSE ToString(Val(x))

Paulis == <<"X", "Y", "Z">>

\* n * 'I'
Repeat(c, k) == [p \in 1..(IF k > 0 THEN k ELSE 0) |-> c]

\* s[:k] for k >= 0
SliceTo(s, k) == SubSeq(s, 1, IF k < Len(s) THEN k ELSE Len(s))

\* s[k:] for k >= 0
SliceFrom(s, k) == SubSeq(s, k + 1, Len(s))

\* the overwrite with the tail taken from i instead of i+1
Overwrite_Insert(s, k, c) == SliceTo(s, k) \o <<c>> \o SliceFrom(s, k)

\* f'{pauli_string[:i]}{pauli}{pauli_string[i+1:]}'
Overwrite(s, k, c) == SliceTo(s, k) \o <<c>> \o SliceFrom(s, k + 1)

\* ---------------------------------------------------------------- momenta
\* outcomes of the three normal draws (x, y, z) that the model enumerates
RawDraws == {<<2, 0, 0>>, <<0, 3, 0>>, <<-1, 0, 0>>}

\* np.sqrt of a perfect square
Sqrt(q) == CHOOSE r \in 0..q : r * r = q

\* the draw rescaled by the reciprocal of its norm
Normalize(d) ==
    LET norm == Sqrt(d[1] * d[1] + d[2] * d[2] + d[3] * d[3])
    IN  <<d[1] \div norm, d[2] \div norm, d[3] \div norm>>

generate_spherical_momentum == {Normalize(d) : d \in RawDraws}

\* np.inner
Inner(a, b) == a[1] * b[1] + a[2] * b[2] + a[3] * b[3]

\* the float num / (sqrt(root) * den)
Float(num, den, root) == [num |-> num, den |-> den, root |-> root]

\* (1/(np.sqrt(2)*n_neutrinos)) * (1 - np.inner(curr, neighbor))
define_forward_scattering_term(nn, curr_momentum, neighbor_momentum) ==
    Float(1 - Inner(curr_momentum, neighbor_momentum), nn, 2)

\* the coupling computed from the current node's momentum twice
gen_couplings_SameMomentum(nn, curr_id, neighbor_id, mom) ==
    define_forward_scattering_term(nn, mom[curr_id], mom[curr_id])

gen_couplings(nn, curr_id, neighbor_id, mom) ==
    define_forward_scattering_term(nn, mom[curr_id], mom[neighbor_id])

\* ----------------------------------------------------------------- graphs
EmptyGraph == [nodes |-> <<>>, attr |-> <<>>, adj |-> <<>>, data |-> <<>>]

Range(s) == {s[k] : k \in 1..Len(s)}

HasNode(gr, v) == v \in Range(gr.nodes)

\* graph.add_node(v, weight=a)
AddNode(gr, v, a) ==
    IF HasNode(gr, v)
    THEN [gr EXCEPT !.attr = (v :> a) @@ gr.attr]
    ELSE [gr EXCEPT !.nodes = Append(gr.nodes, v),
                    !.attr = (v :> a) @@ gr.attr,
                    !.adj = (v :> <<>>) @@ gr.adj]

Touch(gr, v) == IF HasNode(gr, v) THEN gr ELSE AddNode(gr, v, None)

Link(adj, u, v) ==
    IF v \in Range(adj[u]) THEN adj ELSE (u :> Append(adj[u], v)) @@ adj

\* graph.add_edge(u, v, weight=w)
AddEdge(gr, u, v, w) ==
    LET g1 == Touch(Touch(gr, u), v)
    IN  [g1 EXCEPT !.adj = Link(Link(g1.adj, u, v), v, u),
                   !.data = (<<u, v>> :> w) @@ (<<v, u>> :> w) @@ g1.data]

\* the edges that g.edges(data=True) reports while visiting the k-th node
NodeEdges(gr, k) ==
    LET u == gr.nodes[k]
        seen == {gr.nodes[q] : q \in 1..(k - 1)}
        fresh == SelectSeq(gr.adj[u], LAMBDA v : v \notin seen)
    IN  [q \in 1..Len(fresh) |-> <<u, fresh[q], gr.data[<<u, fresh[q]>>]>>]

RECURSIVE EdgesFrom(_, _)
EdgesFrom(gr, k) ==
    IF k > Len(gr.nodes) THEN <<>>
    ELSE NodeEdges(gr, k) \o EdgesFrom(gr, k + 1)

\* list(g.edges(data=True))
Edges(gr) == EdgesFrom(gr, 1)

RECURSIVE AddNodes(_, _)
AddNodes(gr, vs) ==
    IF vs = <<>> THEN gr ELSE AddNodes(AddNode(gr, Head(vs)[1], Head(vs)[2]), Tail(vs))

RECURSIVE AddEdges(_, _)
AddEdges(gr, es) ==
    IF es = <<>> THEN gr
    ELSE AddEdges(AddEdge(gr, Head(es)[1], Head(es)[2], Head(es)[3]), Tail(es))

\* position of node v in the node order, counted from 0
IndexOf(gr, v) == (CHOOSE k \in 1..Len(gr.nodes) : gr.nodes[k] = v) - 1

\* flatten_nx_graph: every node renamed to its position in the node order
flatten_nx_graph(gr) ==
    LET es == Edges(gr)
        vs == [k \in 1..Len(gr.nodes) |-> <<k - 1, gr.attr[gr.nodes[k]]>>]
        re == [k \in 1..Len(es) |->
                  <<IndexOf(gr, es[k][1]), IndexOf(gr, es[k][2]), es[k][3]>>]
    IN  AddEdges(AddNodes(EmptyGraph, vs), re)

\* ------------------------------------------------------------------ state
VARIABLES
    argv,                 \* the command line: [N, T, P, S], each None or Some(v)
    pc,                   \* position of the program
    n_neutrinos,          \* main / generate_heisenberg_graph: args.n_neutrinos
    num_steps,            \* main: args.trotter_steps
    site_interactions,    \* main: args.site_inter
    graph,                \* generate_heisenberg_graph: graph
    momentum,             \* generate_heisenberg_graph: momentum
    node_id,              \* generate_heisenberg_graph: node_id
    idx,                  \* generate_heisenberg_graph: idx of the outer loop
    neighbors,            \* generate_heisenberg_graph: rest of list(graph.nodes)[idx+1:]
    n_couplings,          \* number of evaluations of define_forward_scattering_term
    flat_graph,           \* generate_forward_scattering: flat_graph (g of the expander)
    edge_list,            \* nx_heisenberg_terms: the edges still to be iterated
    n,                    \* nx_heisenberg_terms: n
    edge,                 \* nx_heisenberg_terms: (n1, n2, d) of the current edge
    weight,               \* nx_heisenberg_terms: weight
    pauli_string,         \* nx_heisenberg_terms: pauli_string
    ax,                   \* nx_heisenberg_terms: position in ['X', 'Y', 'Z'], from 1
    i,                    \* nx_heisenberg_terms: i
    hamiltonian,          \* nx_heisenberg_terms: hamiltonian
    result,               \* main: hamiltonian
    hamiltonian_name,     \* main: hamiltonian_name
    metadata,             \* main: the fields name and nsteps of metadata
    estimate              \* main: hamiltonian_name and nsteps given to estimate_trotter

arg_vars == <<argv, n_neutrinos, num_steps, site_interactions>>

ghg_vars == <<graph, momentum, node_id, idx, neighbors, n_couplings>>

nx_vars == <<edge_list, n, edge, weight, pauli_string, ax, i, hamiltonian>>

main_vars == <<result, hamiltonian_name, metadata, estimate>>

vars == <<pc, arg_vars, ghg_vars, flat_graph, nx_vars, main_vars>>

\* ------------------------------------------------------------ parse_args
OptInts(lo, hi) == {None} \cup {Some(v) : v \in lo..hi}

CommandLines ==
    [N : OptInts(-1, MaxParticles), T : OptInts(0, MaxSteps),
     P : {None, Some(1)}, S : {None, Some(3)}]

\* the value argparse stores for an option that was not given
Default(x, d) == IF x = None THEN d ELSE x

\* parse_args(): only -P is declared required=True
ParseArgs ==
    /\ pc = "parse_args"
    /\ pc' = IF argv.P = None THEN "usage_error" ELSE "main"
    /\ UNCHANGED <<arg_vars, ghg_vars, flat_graph, nx_vars, main_vars>>

\* main(): read the arguments and call generate_forward_scattering
MainArgs ==
    /\ pc = "main"
    /\ n_neutrinos' = Default(argv.N, None)
    /\ num_steps' = Default(argv.T, None)
    /\ site_interactions' = Float(Val(Default(argv.S, Some(0))), 1, 1)
    /\ pc' = "ghg_init"
    /\ UNCHANGED <<argv, ghg_vars, flat_graph, nx_vars, main_vars>>

\* ------------------------------------------------ generate_heisenberg_graph
\* a range that also yields stop
RangeHas_Inclusive(k, stop) == k <= stop

\* whether range(stop) still yields after k values
RangeHas(k, stop) == k < stop

\* the slice taken from idx, the node itself included
Neighbors_FromIdx(gr, at) == SliceFrom(gr.nodes, at)

\* list(graph.nodes)[idx+1:]
Neighbors(gr, at) == SliceFrom(gr.nodes, at + 1)

\* the empty graph, and range(n_neutrinos), which raises on None
GhgInit ==
    /\ pc = "ghg_init"
    /\ graph' = EmptyGraph
    /\ momentum' = <<>>
    /\ node_id' = 0
    /\ pc' = IF n_neutrinos = None THEN "TypeError" ELSE "ghg_nodes"
    /\ UNCHANGED <<arg_vars, idx, neighbors, n_couplings, flat_graph, nx_vars, main_vars>>

\* one turn of `for _ in range(n_neutrinos)`
GhgAddNode ==
    /\ pc = "ghg_nodes"
    /\ IF RangeHas(node_id, Val(n_neutrinos))
       THEN \E m \in generate_spherical_momentum :
               /\ graph' = AddNode(graph, node_id, site_interactions)
               /\ momentum' = (node_id :> m) @@ momentum
               /\ node_id' = node_id + 1
               /\ UNCHANGED <<pc, idx>>
       ELSE /\ idx' = 0
            /\ pc' = "ghg_outer"
            /\ UNCHANGED <<graph, momentum, node_id>>
    /\ UNCHANGED <<arg_vars, neighbors, n_couplings, flat_graph, nx_vars, main_vars>>

\* one turn of `for idx, node in enumerate(graph.nodes)`, or return graph
GhgOuter ==
    /\ pc = "ghg_outer"
    /\ IF idx < Len(graph.nodes)
       THEN /\ neighbors' = Neighbors(graph, idx)
            /\ pc' = "ghg_inner"
       ELSE /\ pc' = "flatten"
            /\ UNCHANGED neighbors
    /\ UNCHANGED <<arg_vars, graph, momentum, node_id, idx, n_couplings,
                   flat_graph, nx_vars, main_vars>>

\* one turn of `for neighbor in list(graph.nodes)[idx+1:]`
GhgInner ==
    /\ pc = "ghg_inner"
    /\ IF neighbors # <<>>
       THEN LET node == graph.nodes[idx + 1]
                neighbor == Head(neighbors)
                coupling_terms ==
                    gen_couplings(Val(n_neutrinos), node, neighbor, momentum)
            IN  /\ graph' = AddEdge(graph, node, neighbor, coupling_terms)
                /\ n_couplings' = n_couplings + 1
                /\ neighbors' = Tail(neighbors)
                /\ UNCHANGED <<pc, idx>>
       ELSE /\ idx' = idx + 1
            /\ pc' = "ghg_outer"
            /\ UNCHANGED <<graph, n_couplings, neighbors>>
    /\ UNCHANGED <<arg_vars, momentum, node_id, flat_graph, nx_vars, main_vars>>

\* ---------------------------------------------- generate_forward_scattering
Flatten ==
    /\ pc = "flatten"
    /\ flat_graph' = flatten_nx_graph(graph)
    /\ pc' = "nx_start"
    /\ UNCHANGED <<arg_vars, ghg_vars, nx_vars, main_vars>>

\* ------------------------------------------------------ nx_heisenberg_terms
\* the weight read from the first end's node attribute instead
EdgeWeight_Site(e) == flat_graph.attr[e[1]]

\* weight = d['weight'] of the edge (n1, n2, d)
EdgeWeight(e) == e[3]

\* hamiltonian = [], n = len(g.nodes), and the edge iterator is created
NxStart ==
    /\ pc = "nx_start"
    /\ hamiltonian' = <<>>
    /\ n' = Len(flat_graph.nodes)
    /\ edge_list' = Edges(flat_graph)
    /\ pc' = "nx_edge"
    /\ UNCHANGED <<arg_vars, ghg_vars, flat_graph, edge, weight, pauli_string,
                   ax, i, main_vars>>

\* one turn of `for (n1, n2, d) in g.edges(data=True)`, or return
NxEdge ==
    /\ pc = "nx_edge"
    /\ IF edge_list # <<>>
       THEN /\ edge' = Head(edge_list)
            /\ edge_list' = Tail(edge_list)
            /\ weight' = EdgeWeight(Head(edge_list))
            /\ pauli_string' = Repeat("I", n)
            /\ ax' = 1
            /\ pc' = "nx_axis"
       ELSE /\ pc' = "nx_done"
            /\ UNCHANGED <<edge, edge_list, weight, pauli_string, ax>>
    /\ UNCHANGED <<arg_vars, ghg_vars, flat_graph, n, i, hamiltonian, main_vars>>

\* the axis loop with the buffer set back to identities on every pass
NxAxis_ResetBuffer ==
    /\ pc = "nx_axis"
    /\ IF ax <= Len(Paulis)
       THEN /\ i' = 0
            /\ pauli_string' = Repeat("I", n)
            /\ pc' = "nx_site"
       ELSE /\ pc' = "nx_edge"
            /\ UNCHANGED <<i, pauli_string>>
    /\ UNCHANGED <<arg_vars, ghg_vars, flat_graph, edge_list, n, edge, weight,
                   ax, hamiltonian, main_vars>>

\* one turn of `for pauli in ['X', 'Y', 'Z']`
NxAxis ==
    /\ pc = "nx_axis"
    /\ IF ax <= Len(Paulis)
       THEN /\ i' = 0
            /\ pc' = "nx_site"
       ELSE /\ pc' = "nx_edge"
            /\ UNCHANGED i
    /\ UNCHANGED <<arg_vars, ghg_vars, flat_graph, edge_list, n, edge, weight,
                   pauli_string, ax, hamiltonian, main_vars>>

\* the site loop with the append inside the `if`
NxSite_AppendOnHit ==
    /\ pc = "nx_site"
    /\ IF i < Len(flat_graph.nodes)
       THEN /\ IF i = edge[1] \/ i = edge[2]
               THEN /\ pauli_string' = Overwrite(pauli_string, i, Paulis[ax])
                    /\ hamiltonian' = Append(hamiltonian, <<pauli_string', weight>>)
               ELSE UNCHANGED <<pauli_string, hamiltonian>>
            /\ i' = i + 1
            /\ UNCHANGED <<pc, ax>>
       ELSE /\ ax' = ax + 1
            /\ pc' = "nx_axis"
            /\ UNCHANGED <<pauli_string, hamiltonian, i>>
    /\ UNCHANGED <<arg_vars, ghg_vars, flat_graph, edge_list, n, edge, weight,
                   main_vars>>

\* one turn of `for i in range(len(g))`
NxSite ==
    /\ pc = "nx_site"
    /\ IF i < Len(flat_graph.nodes)
       THEN /\ pauli_string' =
                  IF i = edge[1] \/ i = edge[2]
                  THEN Overwrite(pauli_string, i, Paulis[ax])
                  ELSE pauli_string
            /\ hamiltonian' = Append(hamiltonian, <<pauli_string', weight>>)
            /\ i' = i + 1
            /\ UNCHANGED <<pc, ax>>
       ELSE /\ ax' = ax + 1
            /\ pc' = "nx_axis"
            /\ UNCHANGED <<pauli_string, hamiltonian, i>>
    /\ UNCHANGED <<arg_vars, ghg_vars, flat_graph, edge_list, n, edge, weight,
                   main_vars>>

\* ------------------------------------------------------------------ main
\* generate_forward_scattering returns scattering_hamiltonian to main
GfsReturn ==
    /\ pc = "nx_done"
    /\ result' = hamiltonian
    /\ pc' = "main_convert"
    /\ UNCHANGED <<arg_vars, ghg_vars, flat_graph, nx_vars, hamiltonian_name,
                   metadata, estimate>>

\* np.sqrt, pyH and the qubit-operator conversion return
MainConvert ==
    /\ pc = "main_convert"
    /\ pc' = "main_name"
    /\ UNCHANGED <<arg_vars, ghg_vars, flat_graph, nx_vars, main_vars>>

\* ... or one of these library calls raises and main ends
MainConvertRaises ==
    /\ pc = "main_convert"
    /\ pc' = "raised"
    /\ UNCHANGED <<arg_vars, ghg_vars, flat_graph, nx_vars, main_vars>>

\* hamiltonian_name = f'{num_steps}_step_fs_{n}' if num_steps else f'estimated_fs_{n}'
HamiltonianName(steps, nn) ==
    IF Truthy(steps)
    THEN Fmt(steps) \o "_step_fs_" \o Fmt(nn)
    ELSE "estimated_fs_" \o Fmt(nn)

MainName ==
    /\ pc = "main_name"
    /\ hamiltonian_name' = HamiltonianName(num_steps, n_neutrinos)
    /\ pc' = "main_metadata"
    /\ UNCHANGED <<arg_vars, ghg_vars, flat_graph, nx_vars, result, metadata, estimate>>

MainMetadata ==
    /\ pc = "main_metadata"
    /\ metadata' = [name |-> hamiltonian_name, nsteps |-> num_steps]
    /\ pc' = "main_estimate"
    /\ UNCHANGED <<arg_vars, ghg_vars, flat_graph, nx_vars, result,
                   hamiltonian_name, estimate>>

MainEstimate ==
    /\ pc = "main_estimate"
    /\ estimate' = [hamiltonian_name |-> hamiltonian_name, nsteps |-> num_steps,
                    metadata |-> metadata]
    /\ pc' = "done"
    /\ UNCHANGED <<arg_vars, ghg_vars, flat_graph, nx_vars, result,
                   hamiltonian_name, metadata>>

\* ---------------------------------------------------------- specifications
Blank ==
    /\ n_neutrinos = None
    /\ num_steps = None
    /\ site_interactions = Float(0, 1, 1)
    /\ graph = EmptyGraph
    /\ momentum = <<>>
    /\ node_id = 0
    /\ idx = 0
    /\ neighbors = <<>>
    /\ n_couplings = 0
    /\ edge_list = <<>>
    /\ n = 0
    /\ edge = <<>>
    /\ weight = None
    /\ pauli_string = <<>>
    /\ ax = 1
    /\ i = 0
    /\ hamiltonian = <<>>
    /\ result = <<>>
    /\ hamiltonian_name = ""
    /\ metadata = None
    /\ estimate = None

\* the program, started on any command line
Init ==
    /\ argv \in CommandLines
    /\ pc = "parse_args"
    /\ flat_graph = EmptyGraph
    /\ Blank

Next ==
    \/ ParseArgs
    \/ MainArgs
    \/ GhgInit
    \/ GhgAddNode
    \/ GhgOuter
    \/ GhgInner
    \/ Flatten
    \/ NxStart
    \/ NxEdge
    \/ NxAxis
    \/ NxSite
    \/ GfsReturn
    \/ MainConvert
    \/ MainConvertRaises
    \/ MainName
    \/ MainMetadata
    \/ MainEstimate

Spec == Init /\ [][Next]_vars

\* sequences over S of length at most k
RECURSIVE SeqsUpTo(_, _)
SeqsUpTo(S, k) ==
    IF k = 0 THEN {<<>>}
    ELSE LET shorter == SeqsUpTo(S, k - 1)
         IN  shorter \cup {Append(s, x) : s \in shorter, x \in S}

\* the coupling an input graph carries on the edge (u, v): one of two values
InputWeight(u, v, nn) == Float(1 + ((u + v) % 2), nn, 2)

\* the graphs on nodes 0..nn-1 that at most MaxEdges add_edge calls build
InputGraphs(nn) ==
    LET vs == [k \in 1..nn |-> <<k - 1, Float(0, 1, 1)>>]
        es == {<<u, v, InputWeight(u, v, nn)>> : u, v \in 0..(nn - 1)}
    IN  {AddEdges(AddNodes(EmptyGraph, vs), s) : s \in SeqsUpTo(es, MaxEdges)}

\* nx_heisenberg_terms alone, called on any graph
InitExpand ==
    /\ argv = [N |-> None, T |-> None, P |-> None, S |-> None]
    /\ pc = "nx_start"
    /\ \E nn \in 0..MaxN : flat_graph \in InputGraphs(nn)
    /\ Blank

NextExpand ==
    \/ NxStart
    \/ NxEdge
    \/ NxAxis
    \/ NxSite

SpecExpand == InitExpand /\ [][NextExpand]_vars

\* ------------------------------------------------------------ properties
\* N, the number of nodes of the graph handed to nx_heisenberg_terms
GN == Len(flat_graph.nodes)

\* the edges of that graph in iteration order
GE == Edges(flat_graph)

\* number of edges whose turn has begun
Cur == Len(GE) - Len(edge_list)

\* the edge, the axis (from 1) and the site (from 0) of the k-th term
BlockOf(k) == (k - 1) \div (3 * GN) + 1

AxisOf(k) == ((k - 1) % (3 * GN)) \div GN + 1

SiteOf(k) == (k - 1) % GN

Terms == 1..Len(hamiltonian)

Alphabet == {"I", "X", "Y", "Z"}

\* positions reached after generate_heisenberg_graph has returned its graph
AfterGraph ==
    pc \in {"flatten", "nx_start", "nx_edge", "nx_axis", "nx_site", "nx_done",
            "main_convert", "main_name", "main_metadata", "main_estimate",
            "done", "raised"}

\* positions reached after generate_forward_scattering has returned
AfterCore ==
    pc \in {"main_convert", "main_name", "main_metadata", "main_estimate",
            "done", "raised"}

\* C1: each edge contributes exactly 3*N terms, appended as one contiguous
\* block in edge iteration order: while the a-th edge is processed the output
\* holds the 3*N*(a-1) terms of the earlier edges plus N per finished axis
\* pass plus one per visited site, and at the return it holds 3*N*edge_count.
C1_TermCount ==
    /\ pc \in {"nx_axis", "nx_site"} =>
          /\ edge = GE[Cur]
          /\ Len(hamiltonian) =
                3 * GN * (Cur - 1) + GN * (ax - 1) + (IF pc = "nx_site" THEN i ELSE 0)
    /\ pc = "nx_edge" => Len(hamiltonian) = 3 * GN * Cur
    /\ pc = "nx_done" => Len(hamiltonian) = 3 * GN * Len(GE)

C1_Witness ==
    /\ pc = "nx_done"
    /\ GN = 4
    /\ Len(GE) = 2
    /\ Len(hamiltonian) = 24

\* the symbol a position of {a, b} holds before the pass of axis number q
PreviousSymbol(q) == IF q = 1 THEN "I" ELSE Paulis[q - 1]

\* the k-th term is the snapshot the claim gives for its edge, axis and site
ExpectedString(ge, k) ==
    /\ BlockOf(k) <= Len(ge)
    /\ Len(hamiltonian[k][1]) = GN
    /\ LET e == ge[BlockOf(k)]
           str == hamiltonian[k][1]
           q == AxisOf(k)
           at == SiteOf(k)
       IN  \A p \in 0..(GN - 1) :
              str[p + 1] =
                 IF p = e[1] \/ p = e[2]
                 THEN IF p <= at THEN Paulis[q] ELSE PreviousSymbol(q)
                 ELSE "I"

\* C2: the term of edge (a, b) emitted in the pass of axis P at site i holds,
\* at each position p of {a, b}, P if p <= i and else the previous axis's
\* symbol (I in the X pass), and I everywhere else; the buffer is all I when
\* an edge starts and keeps the previous pass's symbols between passes.
\* Checked for the newest term in every state and for all terms at the return.
C2_TermStrings ==
    /\ hamiltonian # <<>> => ExpectedString(GE, Len(hamiltonian))
    /\ pc = "nx_done" => LET ge == GE IN \A k \in Terms : ExpectedString(ge, k)
    /\ pc = "nx_axis" /\ ax <= 3 =>
          /\ Len(pauli_string) = GN
          /\ \A p \in 0..(GN - 1) :
                pauli_string[p + 1] =
                   IF p = edge[1] \/ p = edge[2] THEN PreviousSymbol(ax) ELSE "I"

C2_Witness ==
    /\ pc = "nx_done"
    /\ \E k \in Terms :
          /\ AxisOf(k) = 2
          /\ {"I", "X", "Y"} \subseteq Range(hamiltonian[k][1])

\* C3: for n_particles >= 1 the returned graph has the nodes 0..n-1 in that
\* order and n*(n-1)/2 edges, exactly one per unordered pair of distinct
\* nodes, and no self-loop.
C3_CompleteGraph ==
    (AfterGraph /\ n_neutrinos # None /\ Val(n_neutrinos) >= 1) =>
        LET nn == Val(n_neutrinos)
            es == Edges(graph)
        IN  /\ graph.nodes = [k \in 1..nn |-> k - 1]
            /\ 2 * Len(es) = nn * (nn - 1)
            /\ \A k \in 1..Len(es) : es[k][1] # es[k][2]
            /\ \A u, v \in 0..(nn - 1) :
                  u < v =>
                     Cardinality({k \in 1..Len(es) : {es[k][1], es[k][2]} = {u, v}}) = 1

C3_Witness ==
    /\ pc = "flatten"
    /\ n_neutrinos = Some(4)
    /\ Len(Edges(graph)) = 6

\* C4: every term of an edge's block carries the weight stored on that edge
\* of the graph.
C4_TermWeights ==
    LET ge == GE
    IN  \A k \in Terms :
           /\ BlockOf(k) <= Len(ge)
           /\ LET e == ge[BlockOf(k)]
              IN  /\ hamiltonian[k][2] = e[3]
                  /\ hamiltonian[k][2] = flat_graph.data[<<e[1], e[2]>>]

C4_Witness ==
    /\ pc = "nx_done"
    /\ Len(GE) = 2
    /\ GE[1][3] # GE[2][3]
    /\ hamiltonian[1][2] = GE[1][3]
    /\ hamiltonian[Len(hamiltonian)][2] = GE[2][3]

WellFormed(str) == Len(str) = GN /\ \A p \in 1..Len(str) : str[p] \in Alphabet

\* C5: the buffer, while an edge is processed, and every string of the
\* output are sequences of exactly N symbols of {I, X, Y, Z}.
C5_StringLength ==
    /\ pc \in {"nx_axis", "nx_site"} => WellFormed(pauli_string)
    /\ \A k \in Terms : WellFormed(hamiltonian[k][1])

C5_Witness ==
    /\ pc = "nx_site"
    /\ GN = 3
    /\ i = 3
    /\ ax = 3
    /\ "Z" \in Range(pauli_string)
    /\ Len(pauli_string) = 3

\* the terms of the e-th edge that equal the term appended just before them
Repeated(e) ==
    {k \in Terms : BlockOf(k) = e /\ k > 1 /\ hamiltonian[k] = hamiltonian[k - 1]}

\* C6 as stated: for every edge, more than half of its 3*N terms equal their
\* immediate predecessor in the output.
C6_MostlyRepeated ==
    pc = "nx_done" => \A e \in 1..Len(GE) : 2 * Cardinality(Repeated(e)) > 3 * GN

\* C6 amended: in a graph with N >= 5 nodes, for every edge, more than half
\* of its 3*N terms equal their immediate predecessor in the output.
C6_MostlyRepeatedFrom5 ==
    (pc = "nx_done" /\ GN >= 5) =>
        \A e \in 1..Len(GE) : 2 * Cardinality(Repeated(e)) > 3 * GN

C6_Witness ==
    /\ pc = "nx_done"
    /\ GN = 5
    /\ \E e \in 1..Len(GE) :
          /\ GE[e][1] # GE[e][2]
          /\ 0 \notin {GE[e][1], GE[e][2]}
          /\ Cardinality(Repeated(e)) = 8

\* a two-site string with exactly one position holding c
PartialOverwrite(str, c) ==
    Len(str) = 2 /\ Cardinality({p \in 1..2 : str[p] = c}) = 1

\* C7: for N = 2 and site_interaction = 0 the graph has one edge and the
\* pipeline returns 6 terms; terms 2, 4 and 6 are XX, YY and ZZ, each other
\* term is II or has one position overwritten by the current axis, and all
\* six carry the coupling of the two particles.
C7_TwoParticles ==
    (AfterCore /\ n_neutrinos = Some(2) /\ site_interactions = Float(0, 1, 1)) =>
        /\ Len(Edges(graph)) = 1
        /\ Len(Edges(flat_graph)) = 1
        /\ Len(result) = 6
        /\ result[2][1] = <<"X", "X">>
        /\ result[4][1] = <<"Y", "Y">>
        /\ result[6][1] = <<"Z", "Z">>
        /\ \A q \in 1..3 :
              \/ result[2 * q - 1][1] = <<"I", "I">>
              \/ PartialOverwrite(result[2 * q - 1][1], Paulis[q])
        /\ \A k \in 1..6 :
              result[k][2] = define_forward_scattering_term(2, momentum[0], momentum[1])

C7_Witness ==
    /\ pc = "main_convert"
    /\ n_neutrinos = Some(2)
    /\ site_interactions = Float(0, 1, 1)
    /\ Len(result) = 6
    /\ result[1][2].num = 2

\* C8: for an integer particle count n <= 1 generate_forward_scattering does
\* not raise, computes no coupling, builds no edge, appends no term and
\* returns the empty Hamiltonian.
C8_DegenerateCount ==
    (n_neutrinos # None /\ Val(n_neutrinos) <= 1) =>
        /\ pc # "TypeError"
        /\ n_couplings = 0
        /\ Edges(graph) = <<>>
        /\ Edges(flat_graph) = <<>>
        /\ hamiltonian = <<>>
        /\ result = <<>>
        /\ pc \in {"flatten", "nx_start", "nx_edge", "nx_done"} \cup
                  {"ghg_init", "ghg_nodes", "ghg_outer", "ghg_inner"} => ENABLED Next

C8_Witness ==
    /\ pc = "main_convert"
    /\ n_neutrinos = Some(0)
    /\ graph.nodes = <<>>
    /\ result = <<>>

\* positions inside generate_forward_scattering
InCore ==
    pc \in {"ghg_init", "ghg_nodes", "ghg_outer", "ghg_inner", "flatten",
            "nx_start", "nx_edge", "nx_axis", "nx_site", "nx_done", "TypeError"}

\* C9: started without -N or without -P, the program never enters
\* generate_forward_scattering nor anything after it in main.
C9_MissingArgumentIsUsageError ==
    (argv.N = None \/ argv.P = None) => ~(InCore \/ AfterCore)

\* C10: the name given to estimate_trotter is 'estimated_fs_<N>' exactly when
\* the step count given to it and stored in the metadata is None, and with an
\* integer step count T the name is '<T>_step_fs_<N>'.
C10_NameAgreesWithSteps ==
    pc = "done" =>
        /\ (estimate.hamiltonian_name = "estimated_fs_" \o Fmt(n_neutrinos))
              <=> (estimate.nsteps = None /\ estimate.metadata.nsteps = None)
        /\ estimate.nsteps # None =>
              estimate.hamiltonian_name =
                 Fmt(estimate.nsteps) \o "_step_fs_" \o Fmt(n_neutrinos)
        /\ estimate.metadata.name = estimate.hamiltonian_name

====
